---- MODULE Spec2Model ----
(***************************************************************************)
(* Model of streamlit_dashboard.py: one run of the dashboard script, from  *)
(* reading shop_kpi_dashboard_full.csv to the caption below the download   *)
(* button.  The script is a straight line of sections; each section is one *)
(* action and pc is the section the run is about to execute.               *)
(*                                                                         *)
(* Numbers.  A Value is a float64.  It is modelled as an extended rational *)
(* <<n, d>>: d > 0 and gcd(n, d) = 1 for a finite number, <<0, 0>> for NaN,*)
(* <<1, 0>> and <<-1, 0>> for +inf and -inf.  Rounding of the binary       *)
(* representation is not modelled; NaN, the infinities and division by     *)
(* zero follow IEEE 754 as numpy/pandas apply it.                          *)
(*                                                                         *)
(* Dates are datetime.date values, modelled as <<year, month, day>>.       *)
(***************************************************************************)
EXTENDS Integers, Sequences, FiniteSets, TLC

(***************************************************************************)
(* float64 arithmetic                                                      *)
(***************************************************************************)
NaN == <<0, 0>>
PosInf == <<1, 0>>
NegInf == <<-1, 0>>

Abs(i) == IF i < 0 THEN -i ELSE i
Sgn(i) == IF i < 0 THEN -1 ELSE IF i > 0 THEN 1 ELSE 0

RECURSIVE Gcd(_, _)
Gcd(a, b) == IF b = 0 THEN a ELSE Gcd(b, a % b)

\* the finite number n/d (d /= 0) in lowest terms
Frac(n, d) ==
    LET g == Gcd(Abs(n), Abs(d))
        s == IF d < 0 THEN -1 ELSE 1
    IN  <<(s * n) \div g, (s * d) \div g>>

Num(i) == <<i, 1>>
IsNaN(v) == v = NaN
IsInf(v) == v[2] = 0 /\ v[1] /= 0
IsFinite(v) == v[2] /= 0
IsZero(v) == v[2] /= 0 /\ v[1] = 0

FNeg(a) == <<-a[1], a[2]>>

FAdd(a, b) ==
    IF IsNaN(a) \/ IsNaN(b) THEN NaN
    ELSE IF IsInf(a) /\ IsInf(b) THEN (IF a = b THEN a ELSE NaN)
    ELSE IF IsInf(a) THEN a
    ELSE IF IsInf(b) THEN b
    ELSE Frac(a[1] * b[2] + b[1] * a[2], a[2] * b[2])

FSub(a, b) == FAdd(a, FNeg(b))

FMul(a, b) ==
    IF IsNaN(a) \/ IsNaN(b) THEN NaN
    ELSE IF IsInf(a) \/ IsInf(b)
         THEN (IF Sgn(a[1]) * Sgn(b[1]) = 0 THEN NaN ELSE <<Sgn(a[1]) * Sgn(b[1]), 0>>)
    ELSE Frac(a[1] * b[1], a[2] * b[2])

\* numpy true division: x/0 is +-inf, 0/0 is NaN, nothing is raised
FDiv(a, b) ==
    IF IsNaN(a) \/ IsNaN(b) THEN NaN
    ELSE IF IsInf(a) /\ IsInf(b) THEN NaN
    ELSE IF IsInf(b) THEN Num(0)
    ELSE IF IsInf(a) THEN <<Sgn(a[1]) * (IF b[1] < 0 THEN -1 ELSE 1), 0>>
    ELSE IF IsZero(b) THEN (IF a[1] = 0 THEN NaN ELSE <<Sgn(a[1]), 0>>)
    ELSE Frac(a[1] * b[2], a[2] * b[1])

\* a >= b on floats: False whenever either side is NaN
FGe(a, b) ==
    IF IsNaN(a) \/ IsNaN(b) THEN FALSE
    ELSE IF IsInf(a) \/ IsInf(b)
         THEN (IF a = b THEN TRUE
               ELSE IF IsInf(a) THEN a[1] > 0 ELSE b[1] < 0)
    ELSE a[1] * b[2] >= b[1] * a[2]

\* bool(x) of a float: only 0.0 is falsy, NaN is truthy
Truthy(v) == ~IsZero(v)

(***************************************************************************)
(* datetime.date                                                           *)
(***************************************************************************)
DateLt(a, b) ==
    \/ a[1] < b[1]
    \/ a[1] = b[1] /\ a[2] < b[2]
    \/ a[1] = b[1] /\ a[2] = b[2] /\ a[3] < b[3]
DateLe(a, b) == a = b \/ DateLt(a, b)

IsLeap(y) == (y % 4 = 0 /\ y % 100 /= 0) \/ y % 400 = 0
DaysInMonth(y, m) ==
    IF m = 2 THEN (IF IsLeap(y) THEN 29 ELSE 28)
    ELSE IF m \in {4, 6, 9, 11} THEN 30 ELSE 31

\* datetime.date(y, m, d) raises ValueError for a day the month does not have
ValidDate(y, m, d) == m \in 1..12 /\ d >= 1 /\ d <= DaysInMonth(y, m)

\* dt + datetime.timedelta(days=1)
NextDay(dt) ==
    IF dt[3] < DaysInMonth(dt[1], dt[2]) THEN <<dt[1], dt[2], dt[3] + 1>>
    ELSE IF dt[2] < 12 THEN <<dt[1], dt[2] + 1, 1>>
    ELSE <<dt[1] + 1, 1, 1>>

\* dt + datetime.timedelta(days=n)
RECURSIVE AddDays(_, _)
AddDays(dt, n) == IF n = 0 THEN dt ELSE AddDays(NextDay(dt), n - 1)

(***************************************************************************)
(* Text of numbers and dates: str.format, DataFrame.to_csv, pd.read_csv    *)
(***************************************************************************)
\* round-half-even of the non-negative rational n/d to an integer
RoundHalfEven(n, d) ==
    LET q == n \div d
        r == n % d
    IN  IF 2 * r < d THEN q
        ELSE IF 2 * r > d THEN q + 1
        ELSE IF q % 2 = 0 THEN q ELSE q + 1

Pad2(i) == IF i < 10 THEN "0" \o ToString(i) ELSE ToString(i)
Pad3(i) == IF i < 10 THEN "00" \o ToString(i)
           ELSE IF i < 100 THEN "0" \o ToString(i) ELSE ToString(i)

\* the "," option of a format spec: digits in groups of three
RECURSIVE Grouped(_)
Grouped(i) ==
    IF i < 1000 THEN ToString(i)
    ELSE Grouped(i \div 1000) \o "," \o Pad3(i % 1000)

\* format(v, "+.1f")
FormatSigned1f(v) ==
    IF IsNaN(v) THEN "+nan"
    ELSE IF IsInf(v) THEN (IF v[1] > 0 THEN "+inf" ELSE "-inf")
    ELSE LET t == RoundHalfEven(Abs(v[1]) * 10, v[2])
         IN  (IF v[1] < 0 THEN "-" ELSE "+")
             \o ToString(t \div 10) \o "." \o ToString(t % 10)

\* format(v, ",.0f")
FormatGrouped0f(v) ==
    IF IsNaN(v) THEN "nan"
    ELSE IF IsInf(v) THEN (IF v[1] > 0 THEN "inf" ELSE "-inf")
    ELSE (IF v[1] < 0 THEN "-" ELSE "") \o Grouped(RoundHalfEven(Abs(v[1]), v[2]))

\* str(datetime.date): the ISO text to_csv writes for a date
DateText(dt) == ToString(dt[1]) \o "-" \o Pad2(dt[2]) \o "-" \o Pad2(dt[3])

\* the text to_csv writes for a float64 cell: empty for NaN, repr otherwise
\* (the raw values of the model's files are whole numbers)
FloatText(v) ==
    IF IsNaN(v) THEN ""
    ELSE (IF v[1] < 0 THEN "-" ELSE "") \o ToString(Abs(v[1])) \o ".0"

\* the cells of the model's files; a file is a sequence of rows of text.
\* RunCells are the files of the full run, SeriesCells the files of the runs
\* with the shop and date-range widgets left at their defaults.
RunCells ==
    [Shop  |-> <<"A", "B">>,
     KPI   |-> <<"net_revenue", "total_clients">>,
     Date  |-> <<"2023-01-01", "2023-02-01">>,
     Value |-> <<"", "0", "100">>]
SeriesCells ==
    [Shop  |-> <<"A">>,
     KPI   |-> <<"net_revenue">>,
     Date  |-> <<"2023-01-01", "2023-02-01", "2023-02-15", "2024-02-01", "2024-02-15">>,
     Value |-> <<"", "0", "100", "150">>]
ShopCells == <<"A", "B">>
KpiCells == <<"net_revenue", "total_clients">>

Calendar ==
    {dt \in (2022..2024) \X (1..12) \X (1..31) : ValidDate(dt[1], dt[2], dt[3])}
RawNumbers == {Num(i) : i \in 0..200}

\* pd.to_datetime(text).date() of an ISO date
ParseDate(text) == CHOOSE dt \in Calendar : DateText(dt) = text

\* read_csv of a numeric cell: an empty cell is NaN; "100" and "100.0" are 100.0
ParseFloat(text) ==
    IF text = "" THEN NaN
    ELSE CHOOSE v \in RawNumbers : text \in {ToString(v[1]), FloatText(v)}

(***************************************************************************)
(* The data file.  A file of the model has at most MaxRows rows, listed in *)
(* the order of CsvRow; no computation of the script depends on the order  *)
(* of the rows of the file.                                                *)
(***************************************************************************)
MaxRows == 2
MaxSeriesRows == 3

NumCsvRows(cells) ==
    Len(cells.Shop) * Len(cells.KPI) * Len(cells.Date) * Len(cells.Value)

CsvRow(cells, i) ==
    LET k == i - 1
        a == k \div Len(cells.Value)
        b == a \div Len(cells.Date)
    IN  [Shop  |-> cells.Shop[((b \div Len(cells.KPI)) % Len(cells.Shop)) + 1],
         KPI   |-> cells.KPI[(b % Len(cells.KPI)) + 1],
         Date  |-> cells.Date[(a % Len(cells.Date)) + 1],
         Value |-> cells.Value[(k % Len(cells.Value)) + 1]]

FilesOver(cells, maxRows) ==
    UNION { { [j \in 1..n |-> CsvRow(cells, t[j])] :
                t \in {u \in [1..n -> 1..NumCsvRows(cells)] :
                          \A j \in 1..(n - 1) : u[j] <= u[j + 1]} } :
            n \in 0..maxRows }

CsvFiles == FilesOver(RunCells, MaxRows)
SeriesFiles == FilesOver(SeriesCells, MaxSeriesRows)

\* load_data: read_csv, then the Date column parsed to datetime.date (the day
\* of the month is kept as written)
load_data(csv) ==
    [i \in 1..Len(csv) |->
        [Shop  |-> csv[i].Shop,
         KPI   |-> csv[i].KPI,
         Date  |-> ParseDate(csv[i].Date),
         Value |-> ParseFloat(csv[i].Value)]]

\* DataFrame.to_csv(index=False): the rows as text, below the header
to_csv(df) ==
    [i \in 1..Len(df) |->
        [Shop  |-> df[i].Shop,
         KPI   |-> df[i].KPI,
         Date  |-> DateText(df[i].Date),
         Value |-> FloatText(df[i].Value)]]

(***************************************************************************)
(* Series and DataFrame operations                                         *)
(***************************************************************************)
Column(df, col) == {df[i][col] : i \in DOMAIN df}
Range(seq) == {seq[i] : i \in DOMAIN seq}

\* sorted(set of str)
RECURSIVE SortedStrings(_, _)
SortedStrings(S, order) ==
    IF order = <<>> THEN <<>>
    ELSE (IF Head(order) \in S THEN <<Head(order)>> ELSE <<>>)
         \o SortedStrings(S, Tail(order))

MinDate(S) == CHOOSE d \in S : \A e \in S : DateLe(d, e)
MaxDate(S) == CHOOSE d \in S : \A e \in S : DateLe(e, d)

RECURSIVE SortedDates(_)
SortedDates(S) ==
    IF S = {} THEN <<>>
    ELSE <<MinDate(S)>> \o SortedDates(S \ {MinDate(S)})

\* Series.sum(): NaN is skipped, the sum of nothing is 0.0
RECURSIVE SumSkipNa(_)
SumSkipNa(vals) ==
    IF vals = <<>> THEN Num(0)
    ELSE IF IsNaN(Head(vals)) THEN SumSkipNa(Tail(vals))
    ELSE FAdd(Head(vals), SumSkipNa(Tail(vals)))

\* Series.count(): the number of values that are not NaN
RECURSIVE CountNotNa(_)
CountNotNa(vals) ==
    IF vals = <<>> THEN 0
    ELSE (IF IsNaN(Head(vals)) THEN 0 ELSE 1) + CountNotNa(Tail(vals))

\* Series.mean(): NaN is skipped, the mean of nothing is NaN
MeanSkipNa(vals) ==
    IF CountNotNa(vals) = 0 THEN NaN
    ELSE FDiv(SumSkipNa(vals), Num(CountNotNa(vals)))

\* the Value cells of the rows of one groupby("Date") group
RECURSIVE GroupValues(_, _)
GroupValues(sub, d) ==
    IF sub = <<>> THEN <<>>
    ELSE (IF Head(sub).Date = d THEN <<Head(sub).Value>> ELSE <<>>)
         \o GroupValues(Tail(sub), d)

\* df.dropna(subset=["Value"])
RECURSIVE DropNaValue(_)
DropNaValue(mdf) ==
    IF mdf = <<>> THEN <<>>
    ELSE (IF IsNaN(Head(mdf).Value) THEN <<>> ELSE <<Head(mdf)>>)
         \o DropNaValue(Tail(mdf))

(***************************************************************************)
(* State of one run of the script                                          *)
(***************************************************************************)
VARIABLES
    pc,               \* the section the run executes next, or how it ended
    err,              \* the exception that ended the run, "" if none
    notice,           \* the st.error / st.warning text shown, "" if none
    df_raw,           \* the loaded DataFrame: rows [Shop, KPI, Date, Value]
    shop_choice,      \* the options selected in the "Shop(s)" multiselect
    shops_sel,
    systemwide,
    primary_kpi,
    compare_kpis,
    start_dt,
    end_dt,
    agg_method,
    normalize_toggle,
    flt,              \* the filtered DataFrame
    score_i,          \* position of the scorecard loop in score_kpis
    cards,            \* the scorecards rendered so far
    overlay_df,       \* rows [Date, Value, KPI] of the overlay line chart
    momdf,            \* rows [Date, Value, MoM_pct] of the MoM bar chart
    raw_table,        \* the rows shown in the "Raw data" expander
    download          \* the download button: [present, data]

vars == <<pc, err, notice, df_raw, shop_choice, shops_sel, systemwide,
          primary_kpi, compare_kpis, start_dt, end_dt, agg_method,
          normalize_toggle, flt, score_i, cards, overlay_df, momdf,
          raw_table, download>>

SYSTEMWIDE == "SYSTEMWIDE (all shops)"
NoDate == <<0, 0, 0>>
SliderStepDays == 31

score_kpis == <<"net_revenue", "total_appointments", "total_clients", "new_members">>

\* kpi.replace("_", " ").title()
Title(kpi) ==
    CASE kpi = "net_revenue" -> "Net Revenue"
      [] kpi = "total_appointments" -> "Total Appointments"
      [] kpi = "total_clients" -> "Total Clients"
      [] kpi = "new_members" -> "New Members"
      [] OTHER -> kpi

\* the names the module namespace binds by the time line 232 runs
ModuleNames ==
    {"df_raw", "all_shops", "shop_selector_options", "shop_choice", "shops_sel",
     "systemwide", "all_kpis", "primary_kpi", "compare_kpis", "min_dt", "max_dt",
     "start_dt", "end_dt", "agg_method", "agg_func", "normalize_toggle",
     "promo_toggle", "flt", "month_agg", "latest_metrics", "score_kpis",
     "sel_kpis", "long_data", "overlay_df", "primary_df"}

all_shops == SortedStrings(Column(df_raw, "Shop"), ShopCells)
shop_selector_options == <<SYSTEMWIDE>> \o all_shops
all_kpis == SortedStrings(Column(df_raw, "KPI"), KpiCells)
min_dt == MinDate(Column(df_raw, "Date"))
max_dt == MaxDate(Column(df_raw, "Date"))

\* the positions of the date-range slider: min_value plus whole steps, and
\* max_value, the upper end of the default range
RECURSIVE SliderSteps(_, _)
SliderSteps(cur, last) ==
    IF DateLt(last, cur) THEN {}
    ELSE {cur} \cup SliderSteps(AddDays(cur, SliderStepDays), last)

SliderValues(lo, hi) == SliderSteps(lo, hi) \cup {hi}

\* a variant of ShopsSel that falls back to every shop when nothing is selected
ShopsSel_EmptyMeansAll(choice, shops) ==
    IF SYSTEMWIDE \in choice \/ choice = {} THEN shops ELSE choice

\* lines 66-71: the shops the filter keeps
ShopsSel(choice, shops) == IF SYSTEMWIDE \in choice THEN shops ELSE choice

\* line 100: Shop.isin(shops_sel) & Date.between(start_dt, end_dt)
FilterRows(df, shops, lo, hi) ==
    LET Keep(r) == r.Shop \in shops /\ DateLe(lo, r.Date) /\ DateLe(r.Date, hi)
    IN  SelectSeq(df, Keep)

(***************************************************************************)
(* 4. Helper functions                                                     *)
(***************************************************************************)
\* groupby("Date") keeps one group per distinct Date value; mean() and sum()
\* skip NaN; reset_index and sort_values("Date") give rows in date order
month_agg(df, kpi) ==
    LET IsKpi(r) == r.KPI = kpi
        sub == SelectSeq(df, IsKpi)
        keys == SortedDates(Column(sub, "Date"))
    IN  [i \in 1..Len(keys) |->
            [Date  |-> keys[i],
             Value |-> IF agg_method = "Average"
                       THEN MeanSkipNa(GroupValues(sub, keys[i]))
                       ELSE SumSkipNa(GroupValues(sub, keys[i]))]]

\* (a - ref) / ref * 100 if ref else np.nan
PercentDelta(a, ref) ==
    IF Truthy(ref) THEN FMul(FDiv(FSub(a, ref), ref), Num(100)) ELSE NaN

\* a variant of latest_metrics that measures MoM against the entry dated one
\* calendar month before the latest one, and has no MoM when there is none
latest_metrics_CalendarPrev(mdf) ==
    LET m == DropNaValue(mdf)
    IN  IF m = <<>>
        THEN [raised |-> "IndexError", val |-> NaN, mom |-> NaN, yoy |-> NaN]
        ELSE LET latest == m[Len(m)]
                 before == IF latest.Date[2] = 1
                           THEN <<latest.Date[1] - 1, 12, latest.Date[3]>>
                           ELSE <<latest.Date[1], latest.Date[2] - 1, latest.Date[3]>>
                 IsBefore(r) == r.Date = before
                 prev == SelectSeq(m, IsBefore)
                 tgt == <<latest.Date[1] - 1, latest.Date[2], 1>>
                 IsTgt(r) == r.Date = tgt
                 hit == SelectSeq(m, IsTgt)
             IN  [raised |-> "",
                  val |-> latest.Value,
                  mom |-> IF prev = <<>> THEN NaN
                          ELSE PercentDelta(latest.Value, prev[1].Value),
                  yoy |-> IF hit = <<>> THEN NaN
                          ELSE PercentDelta(latest.Value, hit[1].Value)]

\* the result is [raised, val, mom, yoy]; raised is the exception that
\* leaves the function, "" when it returns
latest_metrics(mdf) ==
    LET m == DropNaValue(mdf)
    IN  IF m = <<>>
        THEN [raised |-> "IndexError", val |-> NaN, mom |-> NaN, yoy |-> NaN]
        ELSE LET latest == m[Len(m)]
                 latest_val == latest.Value
                 mom == IF Len(m) >= 2
                        THEN PercentDelta(latest_val, m[Len(m) - 1].Value)
                        ELSE NaN
                 tgt == <<latest.Date[1] - 1, latest.Date[2], 1>>
                 IsTgt(r) == r.Date = tgt
                 hit == SelectSeq(m, IsTgt)
                 yoy == IF ~ValidDate(tgt[1], tgt[2], tgt[3]) \/ hit = <<>>
                        THEN NaN
                        ELSE PercentDelta(latest_val, hit[1].Value)
             IN  [raised |-> "", val |-> latest_val, mom |-> mom, yoy |-> yoy]

(***************************************************************************)
(* 5. Scorecard strip                                                      *)
(***************************************************************************)
\* lines 145-153: the card of one KPI
ScoreCard(kpi, mdf, val, mom) ==
    [kpi         |-> kpi,
     title       |-> Title(kpi),
     val_text    |-> FormatGrouped0f(val),
     delta_text  |-> FormatSigned1f(mom) \o "% MoM",
     delta_color |-> IF FGe(mom, Num(0)) THEN "#10b981" ELSE "#ef4444",
     mom         |-> mom,
     spark       |-> mdf]

(***************************************************************************)
(* 6. Overlay line chart                                                   *)
(***************************************************************************)
sel_kpis == <<primary_kpi>> \o compare_kpis

\* a variant of NormalizeOverlay that rebases the series to 1 instead of 100
NormalizeOverlay_IndexOne(mdf) ==
    LET base == mdf[1].Value
    IN  IF Truthy(base)
        THEN [i \in 1..Len(mdf) |->
                [Date |-> mdf[i].Date, Value |-> FDiv(mdf[i].Value, base)]]
        ELSE mdf

\* lines 174-175: mdf["Value"] / base * 100 if base else mdf["Value"]
NormalizeOverlay(mdf) ==
    LET base == mdf[1].Value
    IN  IF Truthy(base)
        THEN [i \in 1..Len(mdf) |->
                [Date  |-> mdf[i].Date,
                 Value |-> FMul(FDiv(mdf[i].Value, base), Num(100))]]
        ELSE mdf

\* lines 172-177: the rows one KPI adds to long_data
OverlayRows(k) ==
    LET mdf == month_agg(flt, k)
        scaled == IF normalize_toggle /\ mdf /= <<>> THEN NormalizeOverlay(mdf) ELSE mdf
    IN  [i \in 1..Len(scaled) |->
            [Date |-> scaled[i].Date, Value |-> scaled[i].Value, KPI |-> Title(k)]]

\* pd.concat(long_data)
RECURSIVE ConcatOverlay(_)
ConcatOverlay(kpis) ==
    IF kpis = <<>> THEN <<>>
    ELSE OverlayRows(Head(kpis)) \o ConcatOverlay(Tail(kpis))

(***************************************************************************)
(* 7. MoM bar chart for primary                                            *)
(***************************************************************************)
\* Series.ffill(): a NaN takes the last value before it that is not NaN
RECURSIVE FFill(_, _)
FFill(vals, last) ==
    IF vals = <<>> THEN <<>>
    ELSE LET v == IF IsNaN(Head(vals)) THEN last ELSE Head(vals)
         IN  <<v>> \o FFill(Tail(vals), v)

\* Series.pct_change() * 100.  pad is pct_change's fill_method default: the
\* series is forward-filled first (pandas before 3.0) or taken as it is
PctChange100(vals, pad) ==
    LET f == IF pad THEN FFill(vals, NaN) ELSE vals
    IN  [i \in 1..Len(vals) |->
            IF i = 1 THEN NaN
            ELSE FMul(FSub(FDiv(f[i], f[i - 1]), Num(1)), Num(100))]

\* line 211: assign(MoM_pct=...).dropna() drops a row with NaN in any column
MoMFrame(primary_df, pad) ==
    LET pct == PctChange100([i \in 1..Len(primary_df) |-> primary_df[i].Value], pad)
        full == [i \in 1..Len(primary_df) |->
                    [Date    |-> primary_df[i].Date,
                     Value   |-> primary_df[i].Value,
                     MoM_pct |-> pct[i]]]
        Complete(r) == ~IsNaN(r.Value) /\ ~IsNaN(r.MoM_pct)
    IN  SelectSeq(full, Complete)

(***************************************************************************)
(* 8. Raw table + download                                                 *)
(***************************************************************************)
RowBefore(a, b) ==
    \/ a.Shop /= b.Shop /\ SortedStrings({a.Shop, b.Shop}, ShopCells)[1] = a.Shop
    \/ a.Shop = b.Shop /\ DateLt(a.Date, b.Date)

\* insertion of a row after the rows that do not sort after it (a stable sort)
RECURSIVE InsertRow(_, _)
InsertRow(sorted, r) ==
    IF sorted = <<>> THEN <<r>>
    ELSE IF RowBefore(r, Head(sorted)) THEN <<r>> \o sorted
    ELSE <<Head(sorted)>> \o InsertRow(Tail(sorted), r)

\* flt.sort_values(["Shop", "Date"]).reset_index(drop=True)
RECURSIVE SortByShopDate(_)
SortByShopDate(df) ==
    IF df = <<>> THEN <<>>
    ELSE InsertRow(SortByShopDate(SubSeq(df, 1, Len(df) - 1)), df[Len(df)])

(***************************************************************************)
(* The run                                                                 *)
(***************************************************************************)
NoDownload == [present |-> FALSE, data |-> <<>>]

Init ==
    /\ pc = "load"
    /\ err = ""
    /\ notice = ""
    /\ df_raw = <<>>
    /\ shop_choice = {}
    /\ shops_sel = {}
    /\ systemwide = FALSE
    /\ primary_kpi = ""
    /\ compare_kpis = <<>>
    /\ start_dt = NoDate
    /\ end_dt = NoDate
    /\ agg_method = ""
    /\ normalize_toggle = FALSE
    /\ flt = <<>>
    /\ score_i = 1
    /\ cards = <<>>
    /\ overlay_df = <<>>
    /\ momdf = <<>>
    /\ raw_table = <<>>
    /\ download = NoDownload

\* lines 45-48: the data file is not in the repo root
LoadMissing ==
    /\ pc = "load"
    /\ notice' = "shop_kpi_dashboard_full.csv not found in repo root."
    /\ pc' = "stopped"
    /\ UNCHANGED <<err, df_raw, shop_choice, shops_sel, systemwide, primary_kpi,
                   compare_kpis, start_dt, end_dt, agg_method, normalize_toggle,
                   flt, score_i, cards, overlay_df, momdf, raw_table, download>>

\* line 50: df_raw = load_data(DATA_PATH)
Load ==
    /\ pc = "load"
    /\ \E csv \in CsvFiles : df_raw' = load_data(csv)
    /\ pc' = "sidebar"
    /\ UNCHANGED <<err, notice, shop_choice, shops_sel, systemwide, primary_kpi,
                   compare_kpis, start_dt, end_dt, agg_method, normalize_toggle,
                   flt, score_i, cards, overlay_df, momdf, raw_table, download>>

\* lines 56-94: the sidebar widgets; each returns what the user has selected.
\* all_kpis.index("net_revenue") raises ValueError when no row has that KPI.
Sidebar ==
    /\ pc = "sidebar"
    /\ \E choice \in SUBSET Range(shop_selector_options) :
          /\ shop_choice' = choice
          /\ shops_sel' = ShopsSel(choice, Range(all_shops))
          /\ systemwide' = (SYSTEMWIDE \in choice)
    /\ IF "net_revenue" \notin Range(all_kpis)
       THEN /\ pc' = "error"
            /\ err' = "ValueError"
            /\ UNCHANGED <<primary_kpi, compare_kpis, start_dt, end_dt,
                           agg_method, normalize_toggle>>
       ELSE /\ \E p \in Range(all_kpis) :
                  /\ primary_kpi' = p
                  /\ \E c \in SUBSET (Range(all_kpis) \ {p}) :
                        compare_kpis' = SortedStrings(c, KpiCells)
            /\ \E lo \in SliderValues(min_dt, max_dt) :
                  \E hi \in SliderValues(min_dt, max_dt) :
                      /\ DateLe(lo, hi)
                      /\ start_dt' = lo
                      /\ end_dt' = hi
            /\ agg_method' \in {"Average", "Sum"}
            /\ normalize_toggle' \in BOOLEAN
            /\ pc' = "filter"
            /\ err' = err
    /\ UNCHANGED <<notice, df_raw, flt, score_i, cards, overlay_df, momdf,
                   raw_table, download>>

\* lines 100-103: the filter; an empty result ends the run with a warning
Filter ==
    /\ pc = "filter"
    /\ flt' = FilterRows(df_raw, shops_sel, start_dt, end_dt)
    /\ IF flt' = <<>>
       THEN /\ notice' = "No data for filters."
            /\ pc' = "stopped"
       ELSE /\ notice' = notice
            /\ pc' = "scorecards"
    /\ UNCHANGED <<err, df_raw, shop_choice, shops_sel, systemwide, primary_kpi,
                   compare_kpis, start_dt, end_dt, agg_method, normalize_toggle,
                   score_i, cards, overlay_df, momdf, raw_table, download>>

\* lines 140-161: one pass of the scorecard loop; line 163 follows the last
Scorecard ==
    /\ pc = "scorecards"
    /\ LET kpi == score_kpis[score_i]
           mdf == month_agg(flt, kpi)
           res == latest_metrics(mdf)
           last == score_i = Len(score_kpis)
       IN  IF mdf = <<>>
           THEN /\ cards' = cards
                /\ score_i' = IF last THEN score_i ELSE score_i + 1
                /\ pc' = IF last THEN "overlay" ELSE pc
                /\ err' = err
           ELSE IF res.raised /= ""
           THEN /\ cards' = cards
                /\ score_i' = score_i
                /\ pc' = "error"
                /\ err' = res.raised
           ELSE /\ cards' = Append(cards, ScoreCard(kpi, mdf, res.val, res.mom))
                /\ score_i' = IF last THEN score_i ELSE score_i + 1
                /\ pc' = IF last THEN "overlay" ELSE pc
                /\ err' = err
    /\ UNCHANGED <<notice, df_raw, shop_choice, shops_sel, systemwide, primary_kpi,
                   compare_kpis, start_dt, end_dt, agg_method, normalize_toggle,
                   flt, overlay_df, momdf, raw_table, download>>

\* lines 169-203: the overlay chart
Overlay ==
    /\ pc = "overlay"
    /\ overlay_df' = ConcatOverlay(sel_kpis)
    /\ pc' = "mom_bar"
    /\ UNCHANGED <<err, notice, df_raw, shop_choice, shops_sel, systemwide,
                   primary_kpi, compare_kpis, start_dt, end_dt, agg_method,
                   normalize_toggle, flt, score_i, cards, momdf, raw_table, download>>

\* lines 209-224: the bar chart, drawn when the primary series has two rows
MoMBar ==
    /\ pc = "mom_bar"
    /\ LET primary_df == month_agg(flt, primary_kpi)
       IN  IF Len(primary_df) > 1
           THEN \E pad \in BOOLEAN : momdf' = MoMFrame(primary_df, pad)
           ELSE momdf' = momdf
    /\ pc' = "raw_data"
    /\ UNCHANGED <<err, notice, df_raw, shop_choice, shops_sel, systemwide,
                   primary_kpi, compare_kpis, start_dt, end_dt, agg_method,
                   normalize_toggle, flt, score_i, cards, overlay_df, raw_table,
                   download>>

\* lines 229-230: the raw table
RawData ==
    /\ pc = "raw_data"
    /\ raw_table' = SortByShopDate(flt)
    /\ pc' = "download"
    /\ UNCHANGED <<err, notice, df_raw, shop_choice, shops_sel, systemwide,
                   primary_kpi, compare_kpis, start_dt, end_dt, agg_method,
                   normalize_toggle, flt, score_i, cards, overlay_df, momdf,
                   download>>

\* lines 232-234: the download button reads the global filt; a name the
\* module does not bind raises NameError
Download ==
    /\ pc = "download"
    /\ IF "filt" \in ModuleNames
       THEN /\ download' = [present |-> TRUE, data |-> to_csv(flt)]
            /\ pc' = "done"
            /\ err' = err
       ELSE /\ download' = download
            /\ pc' = "error"
            /\ err' = "NameError"
    /\ UNCHANGED <<notice, df_raw, shop_choice, shops_sel, systemwide,
                   primary_kpi, compare_kpis, start_dt, end_dt, agg_method,
                   normalize_toggle, flt, score_i, cards, overlay_df, momdf,
                   raw_table>>

Next ==
    \/ LoadMissing
    \/ Load
    \/ Sidebar
    \/ Filter
    \/ Scorecard
    \/ Overlay
    \/ MoMBar
    \/ RawData
    \/ Download

Spec == Init /\ [][Next]_vars

(***************************************************************************)
(* The runs that leave the shop multiselect, the KPI selectors and the     *)
(* date-range slider at their defaults (SYSTEMWIDE, net_revenue, no        *)
(* overlay KPI, the whole range), over files with more months: the state   *)
(* after the filter, which then keeps every row of the file.               *)
(***************************************************************************)
InitSeries ==
    /\ pc = "scorecards"
    /\ err = ""
    /\ notice = ""
    /\ \E csv \in SeriesFiles :
          /\ csv /= <<>>
          /\ df_raw = load_data(csv)
    /\ shop_choice = {SYSTEMWIDE}
    /\ shops_sel = ShopsSel(shop_choice, Range(all_shops))
    /\ systemwide = TRUE
    /\ primary_kpi = "net_revenue"
    /\ compare_kpis = <<>>
    /\ start_dt = min_dt
    /\ end_dt = max_dt
    /\ agg_method \in {"Average", "Sum"}
    /\ normalize_toggle \in BOOLEAN
    /\ flt = FilterRows(df_raw, shops_sel, start_dt, end_dt)
    /\ score_i = 1
    /\ cards = <<>>
    /\ overlay_df = <<>>
    /\ momdf = <<>>
    /\ raw_table = <<>>
    /\ download = NoDownload

NextSeries ==
    \/ Scorecard
    \/ Overlay
    \/ MoMBar
    \/ RawData
    \/ Download

SpecSeries == InitSeries /\ [][NextSeries]_vars

(***************************************************************************)
(* Properties                                                              *)
(***************************************************************************)
MaxOf(S) == CHOOSE i \in S : \A j \in S : j <= i

\* the positions of the entries of a series whose value is defined
DefinedAt(mdf) == {i \in DOMAIN mdf : ~IsNaN(mdf[i].Value)}
LatestAt(mdf) == MaxOf(DefinedAt(mdf))
PrevAt(mdf) == MaxOf(DefinedAt(mdf) \ {LatestAt(mdf)})

\* p is the finite number (a - ref) / ref * 100, for finite a and ref /= 0
IsPercentDelta(p, a, ref) ==
    /\ IsFinite(p)
    /\ p[1] * a[2] * ref[1] = 100 * (a[1] * ref[2] - ref[1] * a[2]) * p[2]

\* the rows of the overlay chart that belong to KPI k
OverlayOf(k) ==
    LET IsK(r) == r.KPI = Title(k)
    IN  SelectSeq(overlay_df, IsK)

OverlayDrawn == pc \in {"mom_bar", "raw_data", "download", "done"}
                \/ (pc = "error" /\ err = "NameError")

\* C1: for every scorecard that was rendered, the MoM handed to the card is
\* (latest - prev) / prev * 100, where latest and prev are the values of the
\* last and the last-but-one entries of the aggregated series whose value is
\* defined, whatever the distance between their dates, whenever the series
\* has two defined entries and prev is not zero; with a single defined entry
\* the MoM is NaN.
C1_MoMAgainstPrecedingEntry ==
    \A c \in DOMAIN cards :
        LET mdf == cards[c].spark
        IN  /\ Cardinality(DefinedAt(mdf)) = 1 => IsNaN(cards[c].mom)
            /\ (Cardinality(DefinedAt(mdf)) >= 2 /\ ~IsZero(mdf[PrevAt(mdf)].Value))
                   => IsPercentDelta(cards[c].mom, mdf[LatestAt(mdf)].Value,
                                     mdf[PrevAt(mdf)].Value)

\* C1 witness: a card whose series is [(Jan 2023, 100), (Feb 2024, 150)], the
\* months between them missing, shows +50%.
C1_Witness ==
    \E c \in DOMAIN cards :
        /\ cards[c].spark = <<[Date |-> <<2023, 1, 1>>, Value |-> Num(100)],
                             [Date |-> <<2024, 2, 1>>, Value |-> Num(150)]>>
        /\ cards[c].mom = Num(50)
        /\ cards[c].delta_text = "+50.0% MoM"

\* C2: for every scorecard that was rendered, the YoY latest_metrics returns
\* for the card's series is defined exactly when the series has an entry
\* dated 12 calendar months before the latest defined entry (same day of the
\* month, year - 1) whose value is defined and not zero, and is then
\* (latest - ref) / ref * 100.
C2_YoYExactDate ==
    \A c \in DOMAIN cards :
        LET mdf == cards[c].spark
            latest == mdf[LatestAt(mdf)]
            ref == <<latest.Date[1] - 1, latest.Date[2], latest.Date[3]>>
            refs == {i \in DefinedAt(mdf) : mdf[i].Date = ref /\ ~IsZero(mdf[i].Value)}
            yoy == latest_metrics(mdf).yoy
        IN  /\ refs = {} => IsNaN(yoy)
            /\ \A i \in refs : IsPercentDelta(yoy, latest.Value, mdf[i].Value)

\* C3: no month-over-month percent is anything but NaN when the entry before
\* it has the value zero: not the MoM of a scorecard, and no bar of the MoM
\* bar chart (a NaN bar is dropped, so such an entry has no bar).
C3_ZeroReferenceGuard ==
    /\ \A c \in DOMAIN cards :
          LET mdf == cards[c].spark
          IN  (Cardinality(DefinedAt(mdf)) >= 2 /\ IsZero(mdf[PrevAt(mdf)].Value))
                  => IsNaN(cards[c].mom)
    /\ LET primary_df == month_agg(flt, primary_kpi)
       IN  \A b \in DOMAIN momdf :
              \A i \in DOMAIN primary_df :
                  (i > 1 /\ primary_df[i].Date = momdf[b].Date
                         /\ IsZero(primary_df[i - 1].Value))
                      => IsNaN(momdf[b].MoM_pct)

\* the delta of a card as the percent template "{:+.1f}% MoM" prints a float
PercentText(v) == FormatSigned1f(v) \o "% MoM"

\* C4: a scorecard whose MoM is undefined shows a placeholder as its delta:
\* a text that is not the undefined MoM put through the percent template,
\* and not the text of a zero delta.
C4_UndefinedDeltaPlaceholder ==
    \A c \in DOMAIN cards :
        IsNaN(cards[c].mom) =>
            /\ cards[c].delta_text /= PercentText(cards[c].mom)
            /\ cards[c].delta_text \notin {PercentText(Num(0)), "-0.0% MoM"}

\* the filtered rows of KPI k hold no defined value (there may be no row)
NoDefinedValue(k) == \A i \in DOMAIN flt : flt[i].KPI = k => IsNaN(flt[i].Value)

\* C5: once the filter has kept some row and the filtered rows of some
\* scorecard KPI hold no defined value, the run does not end in an uncaught
\* exception and no scorecard is rendered for such a KPI.
C5_EmptySeriesRecoverable ==
    (flt /= <<>> /\ \E k \in Range(score_kpis) : NoDefinedValue(k)) =>
        /\ pc /= "error"
        /\ \A c \in DOMAIN cards : ~NoDefinedValue(cards[c].kpi)

\* C6: every entry of an aggregated series stands for a month with at least
\* one defined observation and has a defined value (read off the overlay
\* chart, drawn without normalization).
C6_NoEntryForUndefinedMonth ==
    (OverlayDrawn /\ ~normalize_toggle) =>
        \A i \in DOMAIN overlay_df :
            /\ ~IsNaN(overlay_df[i].Value)
            /\ \E j \in DOMAIN flt :
                  /\ Title(flt[j].KPI) = overlay_df[i].KPI
                  /\ flt[j].Date = overlay_df[i].Date
                  /\ ~IsNaN(flt[j].Value)

\* the two frames hold the same rows, each as often, in any order
SameRows(a, b) ==
    \A r \in {a[i] : i \in DOMAIN a} \cup {b[i] : i \in DOMAIN b} :
        Cardinality({i \in DOMAIN a : a[i] = r}) = Cardinality({i \in DOMAIN b : b[i] = r})

\* C7: a run that has shown the raw table does not end before the download
\* button holds a CSV which load_data reads back as the filtered rows.
C7_ExportRoundTrip ==
    (raw_table /= <<>> /\ pc \in {"done", "error", "stopped"}) =>
        /\ download.present
        /\ SameRows(load_data(download.data), flt)

\* the run has executed the filter of line 100
FilterRan ==
    \/ pc \in {"scorecards", "overlay", "mom_bar", "raw_data", "download", "done"}
    \/ pc = "stopped" /\ df_raw /= <<>>
    \/ pc = "error" /\ err \in {"IndexError", "NameError"}

\* C8: once the filter has run with no shop selected, the filtered frame is
\* empty and the run has stopped on the no-data warning with no scorecard, no
\* chart, no table and no download; and without SYSTEMWIDE in the selection
\* the filter keeps rows of selected shops only.
C8_EmptySelection ==
    FilterRan =>
        /\ shop_choice = {} =>
              /\ flt = <<>>
              /\ pc = "stopped"
              /\ notice = "No data for filters."
              /\ cards = <<>> /\ overlay_df = <<>> /\ momdf = <<>>
              /\ raw_table = <<>> /\ ~download.present
        /\ SYSTEMWIDE \notin shop_choice => Column(flt, "Shop") \subseteq shop_choice

\* C8 witness: a file with rows, nothing selected, the run stopped on the
\* warning.
C8_Witness ==
    /\ df_raw /= <<>>
    /\ shop_choice = {}
    /\ pc = "stopped"
    /\ notice = "No data for filters."

C10_OneEntryPerMonth ==
    OverlayDrawn =>
        \A i \in DOMAIN overlay_df : \A j \in DOMAIN overlay_df :
            (i < j /\ overlay_df[i].KPI = overlay_df[j].KPI) =>
                /\ DateLt(overlay_df[i].Date, overlay_df[j].Date)
                /\ <<overlay_df[i].Date[1], overlay_df[i].Date[2]>>
                     /= <<overlay_df[j].Date[1], overlay_df[j].Date[2]>>

====
